---- MODULE Spec2Model ----
(***************************************************************************)
(* Model of extract_save_image.py: the flat-save header/pixel decoder, the *)
(* clustered "CON " package decoder (PirsType2), the pixel reorder/shift   *)
(* transform and the batch loop of main.                                   *)
(*                                                                         *)
(* Files are finite byte strings.  A file is a record                      *)
(*   [size |-> n, regions |-> <<[at |-> o, bytes |-> b], ...>>]            *)
(* holding the bytes b at offset o for each region and 0 everywhere else   *)
(* below size.  A handle is a file together with a position.               *)
(***************************************************************************)
EXTENDS Integers, Sequences, FiniteSets, TLC

VARIABLES
    pc,          \* position of the component under check
    cluster,     \* _get_offset: argument
    off,         \* _get_offset: result
    pirs,        \* _extract_entry: self (f, pkg_size)
    entry,       \* _extract_entry: e
    ex,          \* _extract_entry: what the call did
    pkg,         \* PirsType2.__init__: the package file, with the slots it was built from
    opened,      \* PirsType2.__init__: outcome
    save,        \* extract_image: the save file, with the fields it was built from
    shot,        \* extract_image: outcome
    w, h,        \* pixel transform: dimensions
    raw,         \* pixel transform: the buffer read from the file
    data,        \* pixel transform: the buffer being transformed
    args,        \* main: sys.argv[1:]
    k,           \* main: index of the input being processed
    p,           \* main: the PirsType2 object bound to p
    handles,     \* main: file handles that are open
    garbage,     \* main: open handles no reference reaches any more
    fs,          \* main: files under out_dir
    cur,         \* main: the input in progress
    outcomes     \* main: outcome of each input processed so far

vars == <<pc, cluster, off, pirs, entry, ex, pkg, opened, save, shot,
          w, h, raw, data, args, k, p, handles, garbage, fs, cur, outcomes>>

offsetVars == <<cluster, off>>
extractVars == <<pirs, entry, ex>>
openVars == <<pkg, opened>>
imageVars == <<save, shot>>
pixelVars == <<w, h, raw, data>>
mainVars == <<args, k, p, handles, garbage, fs, cur, outcomes>>

notOffsetVars == <<extractVars, openVars, imageVars, pixelVars, mainVars>>
notExtractVars == <<offsetVars, openVars, imageVars, pixelVars, mainVars>>
notOpenVars == <<offsetVars, extractVars, imageVars, pixelVars, mainVars>>
notImageVars == <<offsetVars, extractVars, openVars, pixelVars, mainVars>>
notPixelVars == <<offsetVars, extractVars, openVars, imageVars, mainVars>>
notMainVars == <<offsetVars, extractVars, openVars, imageVars, pixelVars>>

\* ------------------------------------------------------------ constants

PIPE == 124
MAGIC == <<70, 79, 51, 83, 65, 86, 69, 71, 65, 77, 69>>
MAGIC_CON == <<67, 79, 78, 32>>
con_start == 49152
con_offset == 8192
BlockSize == 4096
GroupSize == 170
EntrySize == 64
NameSize == 38
LegacyThreshold == 16384
LegacySkip == 60
ShotBase == 4

\* ------------------------------------------------------------ bounds

MaxCluster == 29100
MaxBlocks == 3
MaxWidth == 6
MaxHeight == 2
MaxSeed == 2
MaxCut == 2
MaxPixelBytes == 24
MaxSlots == 2
MaxBatch == 2

\* ------------------------------------------------------------ helpers

Min(a, b) == IF a < b THEN a ELSE b
Max(a, b) == IF a > b THEN a ELSE b

RECURSIVE Pow2(_)
Pow2(n) == IF n = 0 THEN 1 ELSE 2 * Pow2(n - 1)

\* 2^31 - 1, the largest field value the packages and saves below carry
Int32Max == (Pow2(30) - 1) + Pow2(30)

\* x >> n and x << n on non-negative integers
Shr(x, n) == x \div Pow2(n)
Shl(x, n) == x * Pow2(n)

\* ------------------------------------------------------------ files

NoFile == [size |-> 0, regions |-> <<>>]

FlatFile(bytes) == [size |-> Len(bytes), regions |-> <<[at |-> 0, bytes |-> bytes]>>]

\* the regions of the file that hold offset o
RegionsAt(file, o) ==
    {r \in 1..Len(file.regions) :
        /\ file.regions[r].at <= o
        /\ o < file.regions[r].at + Len(file.regions[r].bytes)}

ByteOf(file, o, hit) ==
    IF hit = {} THEN 0
    ELSE file.regions[CHOOSE r \in hit : \A q \in hit : r <= q].bytes[
            o - file.regions[CHOOSE r \in hit : \A q \in hit : r <= q].at + 1]

ByteAt(file, o) == ByteOf(file, o, RegionsAt(file, o))

\* len(f.read(n)) at position pos: what the file still has, at most n
ReadCount(file, pos, n) == Min(n, Max(0, file.size - pos))

\* f.read(n) at position pos
FileRead(file, pos, n) ==
    [j \in 1..ReadCount(file, pos, n) |-> ByteAt(file, pos + j - 1)]

\* read_exact once f.read returned got bytes: EOFError when the read came
\* back short, else the n bytes at f.pos, which Data gives
ReadExactGot(f, n, got) ==
    IF got # n
    THEN [err |-> "EOF", at |-> f.pos, n |-> 0, pos |-> f.pos + got]
    ELSE [err |-> "none", at |-> f.pos, n |-> n, pos |-> f.pos + n]

ReadExact(f, n) == ReadExactGot(f, n, ReadCount(f.file, f.pos, n))

\* the bytes a read_exact returned
Data(file, r) == FileRead(file, r.at, r.n)

\* struct.unpack little-endian, unsigned
RECURSIVE FromLE(_)
FromLE(b) == IF b = <<>> THEN 0 ELSE b[1] + 256 * FromLE(Tail(b))

\* struct.unpack "<i" on four bytes: two's complement.  (TLC integers end at
\* 2^31 - 1, so the sign bit is taken off the top byte and 2^31 subtracted in
\* two halves; unsigned fields are decoded below 2^31.)
SignedFromLE(b) ==
    IF b[4] >= 128
    THEN (FromLE(<<b[1], b[2], b[3], b[4] - 128>>) - Pow2(30)) - Pow2(30)
    ELSE FromLE(b)

\* ------------------------------------------------------------ _get_offset

GetOffsetOneBlockPerGroup(c) ==
    con_start + c * BlockSize + (c \div GroupSize) * con_offset
    + ((c \div GroupSize) \div GroupSize) * con_offset

GetOffset(c) ==
    LET num == con_start + c * BlockSize
        n2 == c \div GroupSize
        n3 == n2 \div GroupSize
        num2 == IF n2 > 0 THEN num + (n2 + 1) * con_offset ELSE num
    IN IF n3 > 0 THEN num2 + (n3 + 1) * con_offset ELSE num2

OffsetIdle == cluster = 0 /\ off = 0

OffsetInit == pc = "call" /\ cluster \in 0..MaxCluster /\ off = 0

CallGetOffset ==
    /\ pc = "call"
    /\ off' = GetOffset(cluster)
    /\ pc' = "returned"
    /\ UNCHANGED <<cluster, notOffsetVars>>

\* ------------------------------------------------------------ _extract_entry

\* A break out of the full-block loop (lines 248, 253, 258, 264).
Break(why, last_off, remainder, chunks) ==
    [brk |-> TRUE, exit |-> why, last_off |-> last_off, remainder |-> remainder,
     chunks |-> chunks, err |-> "none"]

\* lines 261-264 with the remainder left as it is after a short block
BlockReadKeepsRemainder(o, to_read, remainder, got) ==
    IF got.err # "none"
    THEN [brk |-> TRUE, exit |-> "raised", last_off |-> o, remainder |-> remainder,
          chunks |-> <<>>, err |-> got.err]
    ELSE IF to_read < BlockSize
         THEN Break("short", o, remainder, <<[at |-> o, n |-> to_read]>>)
    ELSE [brk |-> FALSE, exit |-> "complete", last_off |-> o, remainder |-> remainder,
          chunks |-> <<[at |-> o, n |-> to_read]>>, err |-> "none"]

\* w.write(read_exact(self.f, to_read)) and the test that follows (lines 261-264)
BlockRead(o, to_read, remainder, got) ==
    IF got.err # "none"
    THEN [brk |-> TRUE, exit |-> "raised", last_off |-> o, remainder |-> remainder,
          chunks |-> <<>>, err |-> got.err]
    ELSE IF to_read < BlockSize
         THEN Break("short", o, 0, <<[at |-> o, n |-> to_read]>>)
    ELSE [brk |-> FALSE, exit |-> "complete", last_off |-> o, remainder |-> remainder,
          chunks |-> <<[at |-> o, n |-> to_read]>>, err |-> "none"]

\* line 255 without the clip to the end of the package
ToReadUnclipped(pkg_size, o) == BlockSize

\* to_read = min(4096, self._pkg_size - off) (line 255)
ToRead(pkg_size, o) == Min(BlockSize, pkg_size - o)

\* the guards of one iteration, with off and to_read computed (lines 247-264)
FullBlockAt(self, o, to_read, last_off, remainder) ==
    IF o <= last_off THEN Break("not_increasing", last_off, remainder, <<>>)
    ELSE IF o >= self.pkg_size THEN Break("beyond_eof", o, 0, <<>>)
    ELSE IF to_read <= 0 THEN Break("nothing_left", o, 0, <<>>)
    ELSE BlockRead(o, to_read, remainder,
                   ReadExact([file |-> self.f, pos |-> o], to_read))

\* one iteration of the full-block loop (lines 245-264)
FullBlockStep(self, start_cluster, i, last_off, remainder) ==
    FullBlockAt(self, GetOffset(start_cluster + i),
                ToRead(self.pkg_size, GetOffset(start_cluster + i)),
                last_off, remainder)

RECURSIVE FullBlockLoop(_, _, _, _, _, _, _)

LoopAfter(self, start_cluster, full_blocks, i, chunks, s) ==
    IF s.brk
    THEN [exit |-> s.exit, iterations |-> i, remainder |-> s.remainder,
          chunks |-> chunks \o s.chunks, err |-> s.err]
    ELSE FullBlockLoop(self, start_cluster, full_blocks, i + 1,
                       s.last_off, s.remainder, chunks \o s.chunks)

\* for i in range(full_blocks) (lines 244-264), from iteration i on
FullBlockLoop(self, start_cluster, full_blocks, i, last_off, remainder, chunks) ==
    IF i >= full_blocks
    THEN [exit |-> "complete", iterations |-> i, remainder |-> remainder,
          chunks |-> chunks, err |-> "none"]
    ELSE LoopAfter(self, start_cluster, full_blocks, i, chunks,
                   FullBlockStep(self, start_cluster, i, last_off, remainder))

RemainderRead(o, to_read, got) ==
    IF got.err # "none"
    THEN [chunks |-> <<>>, err |-> got.err]
    ELSE [chunks |-> <<[at |-> o, n |-> to_read]>>, err |-> "none"]

RemainderAt(self, o, to_read, remainder) ==
    IF remainder > 0 /\ o < self.pkg_size /\ to_read > 0
    THEN RemainderRead(o, to_read, ReadExact([file |-> self.f, pos |-> o], to_read))
    ELSE [chunks |-> <<>>, err |-> "none"]

\* the trailing remainder step (lines 266-272)
RemainderStep(self, start_cluster, full_blocks, remainder) ==
    RemainderAt(self, GetOffset(start_cluster + full_blocks),
                Min(remainder, self.pkg_size - GetOffset(start_cluster + full_blocks)),
                remainder)

\* lines 231-235 with the hint taken as it is
FullBlocksFromHint(e) ==
    IF Max(0, e.BlockLen) # 0 THEN Max(0, e.BlockLen) ELSE Shr(e.Size, 12)

\* full_blocks (lines 231-235)
FullBlocks(e) ==
    IF Max(0, e.BlockLen) # 0
    THEN Min(Shr(e.Size, 12), Max(0, e.BlockLen))
    ELSE Shr(e.Size, 12)

ExtractTail(self, e, full_blocks, lp) ==
    IF lp.err # "none" THEN [chunks |-> <<>>, err |-> lp.err]
    ELSE RemainderStep(self, e.Cluster, full_blocks, lp.remainder)

Extracted(full_blocks, lp, tl) ==
    [created |-> TRUE, exit |-> lp.exit, iterations |-> lp.iterations,
     full_blocks |-> full_blocks, remainder |-> lp.remainder,
     loop |-> lp.chunks, tail |-> tl.chunks, err |-> tl.err]

ExtractLooped(self, e, full_blocks, lp) ==
    Extracted(full_blocks, lp, ExtractTail(self, e, full_blocks, lp))

ExtractBlocks(self, e, full_blocks) ==
    ExtractLooped(self, e, full_blocks,
                  FullBlockLoop(self, e.Cluster, full_blocks, 0, -1,
                                e.Size - Shl(full_blocks, 12), <<>>))

\* _extract_entry (lines 224-272): the chunks (offset, length) of the package
\* written to dst in order, how the loop ended, and the error raised if any.
ExtractEntry(self, e) ==
    IF e.Size <= 0
    THEN [created |-> FALSE, exit |-> "no_output", iterations |-> 0,
          full_blocks |-> 0, remainder |-> 0, loop |-> <<>>, tail |-> <<>>,
          err |-> "none"]
    ELSE ExtractBlocks(self, e, FullBlocks(e))

RECURSIVE ChunkBytes(_)
ChunkBytes(chunks) ==
    IF chunks = <<>> THEN 0 ELSE Head(chunks).n + ChunkBytes(Tail(chunks))

NoExtract == [created |-> FALSE, exit |-> "idle", iterations |-> 0,
              full_blocks |-> 0, remainder |-> 0, loop |-> <<>>, tail |-> <<>>,
              err |-> "none"]

NoEntry == [Size |-> 0, Cluster |-> 0, BlockLen |-> 0]

NoPirs == [f |-> NoFile, pkg_size |-> 0]

ExtractIdle == pirs = NoPirs /\ entry = NoEntry /\ ex = NoExtract

\* Entries and package sizes around the block, group and end-of-file boundaries.
ExtractSizes == {b * BlockSize + r : b \in 0..MaxBlocks, r \in {0, 1, BlockSize - 1}}

ExtractClusters ==
    {0, 1} \cup ((GroupSize - MaxBlocks)..GroupSize)
           \cup ((GroupSize * GroupSize - MaxBlocks)..(GroupSize * GroupSize))

ExtractPkgSizes(c) ==
    {4, con_start}
    \cup {GetOffset(c + j) + d : j \in 0..(MaxBlocks + 1),
                                 d \in {0, 1, BlockSize - 1, BlockSize}}

ExtractInit ==
    /\ pc = "call"
    /\ entry \in [Size : ExtractSizes, Cluster : ExtractClusters,
                  BlockLen : (-1)..(MaxBlocks + 1)]
    /\ \E s \in ExtractPkgSizes(entry.Cluster) :
          pirs = [f |-> [size |-> s, regions |-> <<>>], pkg_size |-> s]
    /\ ex = NoExtract

CallExtractEntry ==
    /\ pc = "call"
    /\ ex' = ExtractEntry(pirs, entry)
    /\ pc' = "returned"
    /\ UNCHANGED <<pirs, entry, notExtractVars>>

\* ------------------------------------------------------------ parse_header

\* A decode in progress: the handle (file, pos), the error raised so far and
\* the fields read so far.
StartDecode(file) ==
    [file |-> file, pos |-> 0, err |-> "none", v |-> [header_start_pos |-> 0]]

Put(s, name, val) == [s EXCEPT !.v = (name :> val) @@ s.v]

Stored(s, name, r) ==
    IF r.err # "none"
    THEN [s EXCEPT !.err = r.err, !.pos = r.pos]
    ELSE Put([s EXCEPT !.pos = r.pos], name, Data(s.file, r))

\* read_exact(f, n), the bytes kept under name; nothing once an error is raised
ReadField(s, n, name) ==
    IF s.err # "none" THEN s ELSE Stored(s, name, ReadExact(s, n))

Unpacked(r, name) ==
    IF r.err # "none" THEN r ELSE Put(r, name, FromLE(r.v[name]))

read_u32_le(s, name) == Unpacked(ReadField(s, 4, name), name)

read_u16_le(s, name) == Unpacked(ReadField(s, 2, name), name)

DividerChecked(r) ==
    IF r.err # "none" THEN r
    ELSE IF r.v.divider[1] # PIPE THEN [r EXCEPT !.err = "BadDivider"]
    ELSE r

read_divider(s) == DividerChecked(ReadField(s, 1, "divider"))

\* latin-1 decodes every byte to the code point of the same number
read_bzstring(s, size, name) ==
    IF s.err # "none" THEN s
    ELSE IF size = 0 THEN Put(s, name, <<>>)
    ELSE ReadField(s, size, name)

MagicChecked(r) ==
    IF r.err # "none" THEN r
    ELSE IF r.v.file_id # MAGIC THEN [r EXCEPT !.err = "BadMagic"]
    ELSE r

\* lines 55-57
ReadMagic(s) == MagicChecked(ReadField(s, 11, "file_id"))

\* f.seek(n, os.SEEK_CUR): never fails, also past the end
SeekCur(s, n) == IF s.err # "none" THEN s ELSE [s EXCEPT !.pos = s.pos + n]

\* lines 64-69 with the skip one byte short
WidthFromSkipsShort(a) ==
    IF a.err # "none" THEN a
    ELSE IF a.v.val > LegacyThreshold
         THEN read_u32_le(read_divider(SeekCur(a, LegacySkip - 1)), "width")
    ELSE Put(a, "width", a.v.val)

\* lines 64-69, val read
WidthFrom(a) ==
    IF a.err # "none" THEN a
    ELSE IF a.v.val > LegacyThreshold
         THEN read_u32_le(read_divider(SeekCur(a, LegacySkip)), "width")
    ELSE Put(a, "width", a.v.val)

\* lines 62-69
ReadWidth(s) == WidthFrom(read_u32_le(read_divider(s), "val"))

TextOfSize(b, sizeName, name) ==
    IF b.err # "none" THEN b ELSE read_bzstring(b, b.v[sizeName], name)

\* a u16 length, then the text of that length, each after a divider
ReadText(s, sizeName, name) ==
    TextOfSize(read_divider(read_u16_le(read_divider(s), sizeName)), sizeName, name)

ScreenshotOffsetAtCursor(save_header_size, pos) == pos

\* line 104
ScreenshotOffset(save_header_size, pos) == ShotBase + save_header_size

\* lines 104-119
HeaderRead(s) ==
    IF s.err # "none" THEN s
    ELSE Put(Put(s, "screenshot_offset", ScreenshotOffset(s.v.save_header_size, s.pos)),
             "header_end_pos", s.pos)

\* lines 71-102
ReadAfterWidth(s) ==
    ReadText(
      ReadText(
        read_u32_le(read_divider(
          ReadText(
            ReadText(
              read_u32_le(read_divider(
                read_u32_le(read_divider(s), "height")), "save_index"),
              "pc_name_size", "pc_name"),
            "pc_karma_size", "pc_karma")), "pc_level"),
        "pc_location_size", "pc_location"),
      "playtime_size", "playtime")

parse_header(file) ==
    HeaderRead(ReadAfterWidth(ReadWidth(
        read_u32_le(read_u32_le(ReadMagic(StartDecode(file)),
                                "save_header_size"), "unknown1"))))

\* ------------------------------------------------------------ pixel transform

\* the place in a pixel the output byte c is taken from (line 277)
SourceChannel(c) == CASE c = 0 -> 2 [] c = 1 -> 0 [] OTHER -> 1

reorder_channels(buf) ==
    [i \in 1..Len(buf) |->
        buf[((i - 1) \div 3) * 3 + SourceChannel((i - 1) % 3) + 1]]

ChannelIndex(channel) == CASE channel = "r" -> 0 [] channel = "g" -> 1 [] OTHER -> 2

\* out[row0 + ch_idx : row0 + row_stride : 3]
ChannelRow(buf, width, y, ch_idx) ==
    [j \in 1..width |-> buf[y * width * 3 + ch_idx + 3 * (j - 1) + 1]]

\* ch_row[-shift:] + ch_row[:-shift]
Rotated(ch_row, width, shift) ==
    SubSeq(ch_row, width - shift + 1, width) \o SubSeq(ch_row, 1, width - shift)

\* the loop over the rows (lines 292-299), 0 < shift < width
ShiftRows(buf, width, height, ch_idx, shift) ==
    [i \in 1..Len(buf) |->
        IF (i - 1) \div (width * 3) < height /\ (i - 1) % 3 = ch_idx
        THEN Rotated(ChannelRow(buf, width, (i - 1) \div (width * 3), ch_idx),
                     width, shift)[((i - 1) % (width * 3)) \div 3 + 1]
        ELSE buf[i]]

Shifted(buf, width, height, ch_idx, shift) ==
    IF shift = 0 THEN buf ELSE ShiftRows(buf, width, height, ch_idx, shift)

\* line 288 with the sign of the shift lost
ShiftAmountNegated(shift_px, width) == (0 - shift_px) % width

\* shift = shift_px % w (line 288)
ShiftAmount(shift_px, width) == shift_px % width

\* shift_channel needs w > 0: shift_px % w raises ZeroDivisionError otherwise
shift_channel(buf, width, height, channel, shift_px) ==
    Shifted(buf, width, height, ChannelIndex(channel), ShiftAmount(shift_px, width))

PixelIdle == w = 0 /\ h = 0 /\ raw = <<>> /\ data = <<>>

\* Buffers whose bytes differ from place to place, so that a byte of the
\* output names the place of the input it came from.
PixelPattern(n, m, s) == [i \in 1..n |-> (i * m + s) % 256]

PixelInit ==
    /\ pc = "read"
    /\ w \in 1..MaxWidth
    /\ h \in 0..MaxHeight
    /\ \E m \in {1, 5}, s \in 0..MaxSeed : raw = PixelPattern(w * h * 3, m, s)
    /\ data = raw

\* line 316
Reorder ==
    /\ pc = "read"
    /\ data' = reorder_channels(data)
    /\ pc' = "reordered"
    /\ UNCHANGED <<w, h, raw, notPixelVars>>

\* line 318
ShiftR ==
    /\ pc = "reordered"
    /\ data' = shift_channel(data, w, h, "r", -3)
    /\ pc' = "shifted_r"
    /\ UNCHANGED <<w, h, raw, notPixelVars>>

\* line 319
ShiftG ==
    /\ pc = "shifted_r"
    /\ data' = shift_channel(data, w, h, "g", -4)
    /\ pc' = "shifted_g"
    /\ UNCHANGED <<w, h, raw, notPixelVars>>

\* line 320
ShiftB ==
    /\ pc = "shifted_g"
    /\ data' = shift_channel(data, w, h, "b", -4)
    /\ pc' = "shifted_b"
    /\ UNCHANGED <<w, h, raw, notPixelVars>>

\* ------------------------------------------------------------ extract_image

\* str.isalnum on the code points latin-1 can decode to
IsAlnum(c) ==
    \/ c \in 48..57 \/ c \in 65..90 \/ c \in 97..122
    \/ c \in {170, 178, 179, 181, 185, 186, 188, 189, 190}
    \/ (c \in 192..255 /\ c \notin {215, 247})

KeptInName(c) == IsAlnum(c) \/ c \in {32, 45, 95}

RECURSIVE StripLeft(_, _)
StripLeft(s, ws) ==
    IF s # <<>> /\ Head(s) \in ws THEN StripLeft(Tail(s), ws) ELSE s

RECURSIVE StripRight(_, _)
StripRight(s, ws) ==
    IF s # <<>> /\ s[Len(s)] \in ws THEN StripRight(SubSeq(s, 1, Len(s) - 1), ws) ELSE s

Underscored(s) == [i \in 1..Len(s) |-> IF s[i] = 32 THEN 95 ELSE s[i]]

\* lines 324-330: the parts of the output name
OutName(meta) ==
    [save_index |-> meta.save_index, w |-> meta.width, h |-> meta.height,
     suffixed |-> meta.pc_name # <<>>,
     suffix |-> IF meta.pc_name = <<>> THEN <<>>
                ELSE Underscored(StripRight(StripLeft(
                        SelectSeq(meta.pc_name, KeptInName), {32}), {32}))]

NoImage(why, meta) == [err |-> why, meta |-> meta, img |-> <<>>, saved |-> <<>>]

\* lines 322-332
SaveImage(meta, img) ==
    [err |-> "none", meta |-> <<meta>>, img |-> <<img>>,
     saved |-> <<[name |-> OutName(meta), img |-> img]>>]

\* lines 316-320
Transform(d, width, height) ==
    shift_channel(
        shift_channel(
            shift_channel(reorder_channels(d), width, height, "r", -3),
            width, height, "g", -4),
        width, height, "b", -4)

\* lines 314-332, the pixel bytes read
PixelsRead(file, meta, rd) ==
    IF rd.err # "none" THEN NoImage(rd.err, <<meta>>)
    ELSE IF meta.width = 0 THEN NoImage("ZeroDivision", <<meta>>)
    ELSE SaveImage(meta, [w |-> meta.width, h |-> meta.height,
                          data |-> Transform(Data(file, rd), meta.width, meta.height)])

\* lines 308-332, the header parsed
HeaderParsed(file, hd) ==
    IF hd.err # "none" THEN NoImage(hd.err, <<>>)
    ELSE PixelsRead(file, hd.v, ReadExact([file |-> file, pos |-> hd.v.screenshot_offset],
                                          hd.v.width * hd.v.height * 3))

\* the body of the with block (lines 307-332)
ExtractImageBody(file) == HeaderParsed(file, parse_header(file))

NoShot == [err |-> "idle", meta |-> <<>>, img |-> <<>>, saved |-> <<>>]

\* --- save files to decode

LE(n, width) == [j \in 1..width |-> (n \div Pow2(8 * (j - 1))) % 256]

Zeros(n) == [j \in 1..n |-> 0]

Text(t) == <<PIPE>> \o LE(Len(t), 2) \o <<PIPE>> \o t

\* The header of a save with the fields of q and header size hs.
SaveHeader(q, hs) ==
    (IF q.flaw = "magic" THEN <<88>> \o Tail(MAGIC) ELSE MAGIC)
    \o LE(hs, 4) \o LE(0, 4)
    \o <<PIPE>> \o LE(q.first, 4)
    \o (IF q.layout = "legacy"
        THEN Zeros(LegacySkip) \o <<PIPE>> \o LE(q.width, 4) ELSE <<>>)
    \o <<IF q.flaw = "divider" THEN 0 ELSE PIPE>> \o LE(q.height, 4)
    \o <<PIPE>> \o LE(7, 4)
    \o Text(q.name) \o Text(<<>>)
    \o <<PIPE>> \o LE(1, 4)
    \o Text(<<86>>) \o Text(<<>>)

SaveHeaderSize(q) == Len(SaveHeader(q, 0)) - ShotBase + q.pad

\* The save file of q: the header, q.pad more bytes, then the pixel bytes the
\* declared dimensions ask for (at most MaxPixelBytes of them) less q.cut.
SaveBytes(q) ==
    IF q.flaw = "header_cut"
    THEN SubSeq(SaveHeader(q, SaveHeaderSize(q)), 1, Len(SaveHeader(q, 0)) - 5)
    ELSE SaveHeader(q, SaveHeaderSize(q)) \o Zeros(q.pad)
         \o PixelPattern(Max(0, Min(q.width * q.height * 3, MaxPixelBytes) - q.cut),
                         17, 3)

SaveShapes ==
    {[layout |-> "plain", first |-> n, width |-> n] :
        n \in {0, 1, 2, LegacyThreshold, LegacyThreshold + 1}}
    \cup {[layout |-> "legacy", first |-> f, width |-> n] :
        f \in {LegacyThreshold + 1, Int32Max}, n \in {1, 2, 70000}}

SaveParams ==
    {[layout |-> s.layout, first |-> s.first, width |-> s.width, height |-> ht,
      name |-> nm, pad |-> pd, cut |-> ct, flaw |-> fl] :
        s \in SaveShapes, ht \in 0..MaxHeight, nm \in {<<>>, <<74, 32, 68>>},
        pd \in {0, 3}, ct \in 0..MaxCut,
        fl \in {"none", "magic", "divider", "header_cut"}}

ImageIdle == save = [q |-> <<>>, file |-> NoFile] /\ shot = NoShot

ImageInit ==
    /\ pc = "call"
    /\ \E q \in SaveParams : save = [q |-> q, file |-> FlatFile(SaveBytes(q))]
    /\ shot = NoShot

\* extract_image on a file that exists (lines 306-332)
CallExtractImage ==
    /\ pc = "call"
    /\ shot' = ExtractImageBody(save.file)
    /\ pc' = "returned"
    /\ UNCHANGED <<save, notImageVars>>

\* ------------------------------------------------------------ PirsType2

\* bytes.decode("utf-8", "replace") on one- and two-byte sequences: a byte
\* below 128 is its own code point, a lead byte 194..223 with a continuation
\* byte is one code point, any other byte becomes U+FFFD.
RECURSIVE Utf8Decode(_)
Utf8Decode(b) ==
    IF b = <<>> THEN <<>>
    ELSE IF b[1] < 128 THEN <<b[1]>> \o Utf8Decode(Tail(b))
    ELSE IF b[1] \in 194..223 /\ Len(b) >= 2 /\ b[2] \in 128..191
         THEN <<(b[1] - 192) * 64 + (b[2] - 128)>> \o Utf8Decode(Tail(Tail(b)))
    ELSE <<65533>> \o Utf8Decode(Tail(b))

\* the code points below U+0800 that str.strip() removes
Whitespace == (9..13) \cup (28..32) \cup {133, 160}

\* raw.find(b"\x00"): the index of the first NUL, -1 when there is none
FindNul(b) ==
    IF \E i \in 1..Len(b) : b[i] = 0
    THEN (CHOOSE i \in 1..Len(b) : b[i] = 0 /\ \A j \in 1..(i - 1) : b[j] # 0) - 1
    ELSE -1

CutAt(b, i) == IF i # -1 THEN SubSeq(b, 1, i) ELSE b

\* read_fixed_str on the bytes read (lines 136-139)
FixedStr(b) ==
    StripRight(StripLeft(Utf8Decode(CutAt(b, FindNul(b))), Whitespace), Whitespace)

\* (x >> n) & mask, mask = 2^bits - 1
Bits(x, n, bits) == Shr(x, n) % Pow2(bits)

DosFields(d, t) ==
    <<Bits(d, 9, 7) + 1980, Bits(d, 5, 4), Bits(d, 0, 5),
      Bits(t, 11, 5), Bits(t, 5, 6), Bits(t, 0, 5) * 2>>

dos_datetime_from_u32(v) == DosFields(Bits(v, 16, 16), Bits(v, 0, 16))

\* e.Cluster = raw_cluster >> 8 (line 191)
ClusterOf(raw_cluster) == Shr(raw_cluster, 8)

\* line 199
Entry(name, unknow, blocklen, clu, parent, size, dt1, dt2) ==
    [Filename |-> name, Unknow |-> unknow, BlockLen |-> blocklen, Cluster |-> clu,
     Parent |-> parent, Size |-> size,
     DateTime1 |-> dos_datetime_from_u32(dt1),
     DateTime2 |-> dos_datetime_from_u32(dt2),
     is_dir |-> (size = 0 /\ clu = 0)]

\* lines 188-200, on the 26 bytes after the name
EntryFields(name, b) ==
    Entry(name, SignedFromLE(SubSeq(b, 1, 4)), SignedFromLE(SubSeq(b, 5, 8)),
          ClusterOf(FromLE(SubSeq(b, 9, 12))), FromLE(SubSeq(b, 13, 14)),
          FromLE(SubSeq(b, 15, 18)), FromLE(SubSeq(b, 19, 22)),
          FromLE(SubSeq(b, 23, 26)))

EntryRest(file, name, rest) ==
    IF rest.err # "none" THEN [err |-> rest.err, pos |-> rest.pos, e |-> <<>>]
    ELSE [err |-> "none", pos |-> rest.pos,
          e |-> <<EntryFields(name, Data(file, rest))>>]

EntryNamed(file, pos, name) ==
    IF name = <<>>
    THEN [err |-> "none", pos |-> pos, e |-> <<[Filename |-> <<>>]>>]
    ELSE EntryRest(file, name, ReadExact([file |-> file, pos |-> pos], EntrySize - NameSize))

EntryName(file, nm) ==
    IF nm.err # "none" THEN [err |-> nm.err, pos |-> nm.pos, e |-> <<>>]
    ELSE EntryNamed(file, nm.pos, FixedStr(Data(file, nm)))

\* _read_entry with the handle at pos (lines 183-200)
ReadEntry(file, pos) == EntryName(file, ReadExact([file |-> file, pos |-> pos], NameSize))

RECURSIVE ReadEntries(_, _, _)

\* lines 208-211 with the test on the name left out for full slots
SlotReadNeverEmpty(file, idx, entries, s) ==
    IF s.err # "none"
    THEN [err |-> s.err, entries |-> <<>>, slots_read |-> idx + 1, pos |-> s.pos]
    ELSE IF s.e[1].Filename = <<>> /\ idx > 0
         THEN [err |-> "none", entries |-> entries, slots_read |-> idx + 1,
               pos |-> s.pos]
    ELSE ReadEntries(file, idx + 1, Append(entries, s.e[1]))

\* lines 208-211, the slot read
SlotRead(file, idx, entries, s) ==
    IF s.err # "none"
    THEN [err |-> s.err, entries |-> <<>>, slots_read |-> idx + 1, pos |-> s.pos]
    ELSE IF s.e[1].Filename = <<>>
         THEN [err |-> "none", entries |-> entries, slots_read |-> idx + 1,
               pos |-> s.pos]
    ELSE ReadEntries(file, idx + 1, Append(entries, s.e[1]))

\* _read_entries from slot idx on (lines 202-212): the entries, the number of
\* slots read and the position the handle is left at
ReadEntries(file, idx, entries) ==
    SlotRead(file, idx, entries, ReadEntry(file, con_start + idx * EntrySize))

NotOpened == [err |-> "idle", self |-> <<>>, slots_read |-> 0, pos |-> 0]

TableRead(file, tb) ==
    IF tb.err # "none"
    THEN [err |-> tb.err, self |-> <<>>, slots_read |-> tb.slots_read, pos |-> tb.pos]
    ELSE [err |-> "none",
          self |-> <<[f |-> file, pkg_size |-> file.size, entries |-> tb.entries]>>,
          slots_read |-> tb.slots_read, pos |-> tb.pos]

MagicRead(file, mg) ==
    IF mg.err # "none"
    THEN [err |-> mg.err, self |-> <<>>, slots_read |-> 0, pos |-> mg.pos]
    ELSE IF Data(file, mg) # MAGIC_CON
         THEN [err |-> "BadMagic", self |-> <<>>, slots_read |-> 0, pos |-> mg.pos]
    ELSE TableRead(file, ReadEntries(file, 0, <<>>))

\* PirsType2.__init__ after the open (lines 161-171)
PirsInit(file) == MagicRead(file, ReadExact([file |-> file, pos |-> 0], 4))

\* --- packages to open

SavegameDat == <<83, 97, 118, 101, 103, 97, 109, 101, 46, 100, 97, 116>>

LongName == [j \in 1..NameSize |-> 97 + (j % 26)]

\* the four bytes of a signed 32-bit number
SignedLow(low) == <<low[1], low[2], low[3], low[4] + 128>>

SignedLE(v) ==
    IF v >= 0 THEN LE(v, 4) ELSE SignedLow(LE((v + Pow2(30)) + Pow2(30), 4))

\* Table slots: the fields written, and the name the slot is to show.
SlotChoices ==
    { [name |-> <<65>>, shown |-> <<65>>, unknow |-> -1, blocklen |-> -2,
       raw_cluster |-> 66303, parent |-> 65535, size |-> 5000,
       dt1 |-> 1513584251, dt2 |-> 0],
      [name |-> <<32, 65, 9>>, shown |-> <<65>>, unknow |-> 0,
       blocklen |-> Int32Max, raw_cluster |-> Int32Max, parent |-> 0,
       size |-> Int32Max, dt1 |-> Int32Max, dt2 |-> 65536],
      [name |-> <<68, 0, 66>>, shown |-> <<68>>, unknow |-> 3, blocklen |-> 0,
       raw_cluster |-> 171, parent |-> 1, size |-> 0, dt1 |-> 0, dt2 |-> 0],
      [name |-> LongName, shown |-> LongName, unknow |-> 0, blocklen |-> 1,
       raw_cluster |-> 256, parent |-> 0, size |-> 0, dt1 |-> 0, dt2 |-> 33],
      [name |-> <<255>>, shown |-> <<65533>>, unknow |-> 0, blocklen |-> 0,
       raw_cluster |-> 512, parent |-> 0, size |-> 1, dt1 |-> 0, dt2 |-> 0],
      [name |-> <<>>, shown |-> <<>>, unknow |-> 5, blocklen |-> 5,
       raw_cluster |-> 5, parent |-> 5, size |-> 5, dt1 |-> 5, dt2 |-> 5],
      [name |-> <<32, 32>>, shown |-> <<>>, unknow |-> 0, blocklen |-> 0,
       raw_cluster |-> 0, parent |-> 0, size |-> 9, dt1 |-> 0, dt2 |-> 0],
      [name |-> <<194, 160, 0, 65>>, shown |-> <<>>, unknow |-> 0, blocklen |-> 0,
       raw_cluster |-> 0, parent |-> 0, size |-> 9, dt1 |-> 0, dt2 |-> 0] }

SlotBytes(sl) ==
    sl.name \o Zeros(NameSize - Len(sl.name))
    \o SignedLE(sl.unknow) \o SignedLE(sl.blocklen)
    \o LE(sl.raw_cluster, 4) \o LE(sl.parent, 2) \o LE(sl.size, 4)
    \o LE(sl.dt1, 4) \o LE(sl.dt2, 4)

RECURSIVE TableBytes(_)
TableBytes(slots) ==
    IF slots = <<>> THEN <<>> ELSE SlotBytes(Head(slots)) \o TableBytes(Tail(slots))

\* A package of the given size: the magic, the table at con_start, data at
\* dataAt, zero bytes everywhere else.
Package(magic, slots, dataAt, bytes, size) ==
    [size |-> size,
     regions |-> <<[at |-> 0, bytes |-> magic],
                   [at |-> con_start, bytes |-> TableBytes(slots)],
                   [at |-> dataAt, bytes |-> bytes]>>]

RECURSIVE SlotLists(_)
SlotLists(n) ==
    IF n = 0 THEN {<<>>}
    ELSE SlotLists(n - 1)
         \cup {Append(l, sl) : l \in {x \in SlotLists(n - 1) : Len(x) = n - 1},
                               sl \in SlotChoices}

\* File sizes that end the file before, inside and after each slot.
OpenSizes(n) ==
    {2, 4, con_start}
    \cup {con_start + j * EntrySize + d :
             j \in 0..n, d \in {NameSize - 1, NameSize, EntrySize - 1, EntrySize}}

OpenIdle == pkg = [slots |-> <<>>, file |-> NoFile] /\ opened = NotOpened

OpenInit ==
    /\ pc = "call"
    /\ \E slots \in SlotLists(MaxSlots), mg \in {MAGIC_CON, <<67, 79, 78, 0>>} :
         \E size \in OpenSizes(Len(slots)) :
            pkg = [slots |-> slots,
                   file |-> Package(mg, slots, GetOffset(1), <<>>, size)]
    /\ opened = NotOpened

\* PirsType2(path) on a file that exists (lines 158-171)
CallPirsInit ==
    /\ pc = "call"
    /\ opened' = PirsInit(pkg.file)
    /\ pc' = "returned"
    /\ UNCHANGED <<pkg, notOpenVars>>

\* ------------------------------------------------------------ extract_all

\* the bytes of the package the chunks name, in order
RECURSIVE Materialize(_, _)
Materialize(file, chunks) ==
    IF chunks = <<>> THEN <<>>
    ELSE FileRead(file, Head(chunks).at, Head(chunks).n)
         \o Materialize(file, Tail(chunks))

RECURSIVE ExtractAll(_, _, _)

EntryExtracted(self, i, files, e, r) ==
    IF r.err # "none" THEN [err |-> r.err, files |-> files]
    ELSE IF ~r.created THEN ExtractAll(self, i + 1, files)
    ELSE ExtractAll(self, i + 1,
                    (e.Filename :> Materialize(self.f, r.loop \o r.tail)) @@ files)

ExtractOne(self, i, files, e) ==
    IF e.is_dir THEN ExtractAll(self, i + 1, files)
    ELSE EntryExtracted(self, i, files, e, ExtractEntry(self, e))

\* extract_all over the entries from index i on (lines 219-222); files maps
\* the names under out_dir to their bytes
ExtractAll(self, i, files) ==
    IF i > Len(self.entries) THEN [err |-> "none", files |-> files]
    ELSE ExtractOne(self, i, files, self.entries[i])

\* ------------------------------------------------------------ main

GoodSave == [layout |-> "plain", first |-> 2, width |-> 2, height |-> 1,
             name |-> <<74>>, pad |-> 0, cut |-> 0, flaw |-> "none"]

SavegameSlot(n) ==
    [name |-> SavegameDat, shown |-> SavegameDat, unknow |-> 0, blocklen |-> 1,
     raw_cluster |-> 256, parent |-> 65535, size |-> n, dt1 |-> 0, dt2 |-> 0]

\* A package whose only entry is Savegame.dat, holding bytes in cluster 1.
SavegamePackage(bytes) ==
    Package(MAGIC_CON, <<SavegameSlot(Len(bytes))>>, GetOffset(1), bytes,
            GetOffset(1) + Len(bytes))

\* The inputs main is run on: flat saves and packages, sound and damaged.
MainInputs ==
    { [fxs |-> FALSE, file |-> FlatFile(SaveBytes(GoodSave))],
      [fxs |-> FALSE, file |-> FlatFile(SaveBytes([GoodSave EXCEPT !.flaw = "magic"]))],
      [fxs |-> FALSE, file |-> FlatFile(SaveBytes([GoodSave EXCEPT !.cut = 1]))],
      [fxs |-> TRUE, file |-> SavegamePackage(SaveBytes(GoodSave))],
      [fxs |-> TRUE,
       file |-> SavegamePackage(SaveBytes([GoodSave EXCEPT !.flaw = "divider"]))],
      [fxs |-> TRUE, file |-> Package(<<80, 73, 82, 83>>, <<>>, GetOffset(1), <<>>,
                                      GetOffset(1))],
      [fxs |-> TRUE, file |-> Package(MAGIC_CON, <<>>, GetOffset(1), <<>>, con_start)],
      [fxs |-> TRUE, file |-> Package(MAGIC_CON, <<>>, GetOffset(1), <<>>,
                                      GetOffset(1))] }

RECURSIVE Batches(_)
Batches(n) ==
    IF n = 0 THEN {<<>>}
    ELSE LET shorter == Batches(n - 1)
         IN shorter \cup {Append(b, x) : b \in {y \in shorter : Len(y) = n - 1},
                                         x \in MainInputs}

NoCur == [save_file |-> <<>>, result |-> NoShot]

Outcome(err, img) == [err |-> err, img |-> img]

MainIdle ==
    /\ args = <<>> /\ k = 0 /\ p = <<>> /\ handles = {} /\ garbage = {}
    /\ fs = [files |-> <<>>, images |-> {}] /\ cur = NoCur /\ outcomes = <<>>

MainInit ==
    /\ pc = "loop"
    /\ args \in Batches(MaxBatch)
    /\ k = 0 /\ p = <<>> /\ handles = {} /\ garbage = {}
    /\ fs = [files |-> <<>>, images |-> {}]
    /\ cur = NoCur
    /\ outcomes = <<>>

\* an exception leaves main: nothing catches it (lines 335-349)
Raise(err) ==
    /\ outcomes' = Append(outcomes, Outcome(err, <<>>))
    /\ pc' = "crashed"

\* for save_file in args, and the test on the name (lines 338-339)
NextInput ==
    /\ pc = "loop"
    /\ k < Len(args)
    /\ cur' = [save_file |-> IF args[k + 1].fxs THEN <<>> ELSE <<args[k + 1].file>>,
               result |-> NoShot]
    /\ pc' = IF args[k + 1].fxs THEN "pirs" ELSE "open_save"
    /\ UNCHANGED <<args, k, p, handles, garbage, fs, outcomes, notMainVars>>

\* p = PirsType2(Path(save_file)) (line 340): the handle is opened and kept in
\* the object; the object p was bound to before is no longer referenced
OpenPackage ==
    /\ pc = "pirs"
    /\ LET id == <<"pkg", k + 1>>
           r == PirsInit(args[k + 1].file)
       IN /\ handles' = handles \cup {id}
          /\ IF r.err # "none"
             THEN /\ Raise(r.err)
                  /\ garbage' = garbage \cup {id}
                  /\ UNCHANGED p
             ELSE /\ p' = <<[id |-> id, self |-> r.self[1]]>>
                  /\ garbage' = garbage \cup {p[j].id : j \in 1..Len(p)}
                  /\ pc' = "extract_all"
                  /\ UNCHANGED outcomes
    /\ UNCHANGED <<args, k, fs, cur, notMainVars>>

\* p.extract_all(out_dir); save_file = out_dir / 'Savegame.dat' (lines 341-345)
ExtractAllEntries ==
    /\ pc = "extract_all"
    /\ LET r == ExtractAll(p[1].self, 1, fs.files)
       IN IF r.err # "none"
          THEN Raise(r.err) /\ UNCHANGED <<fs, cur>>
          ELSE /\ fs' = [fs EXCEPT !.files = r.files]
               /\ cur' = [cur EXCEPT !.save_file =
                            IF SavegameDat \in DOMAIN r.files
                            THEN <<FlatFile(r.files[SavegameDat])>> ELSE <<>>]
               /\ pc' = "open_save"
               /\ UNCHANGED outcomes
    /\ UNCHANGED <<args, k, p, handles, garbage, notMainVars>>

\* with save_path.open("rb") as f (line 306)
OpenSave ==
    /\ pc = "open_save"
    /\ IF cur.save_file = <<>>
       THEN Raise("FileNotFound") /\ UNCHANGED handles
       ELSE /\ handles' = handles \cup {<<"save", k + 1>>}
            /\ pc' = "decode"
            /\ UNCHANGED outcomes
    /\ UNCHANGED <<args, k, p, garbage, fs, cur, notMainVars>>

\* the body of the with block (lines 307-332)
DecodeSave ==
    /\ pc = "decode"
    /\ LET r == ExtractImageBody(cur.save_file[1])
       IN /\ cur' = [cur EXCEPT !.result = r]
          /\ fs' = IF r.err # "none" THEN fs
                   ELSE [fs EXCEPT !.images =
                           {x \in @ : x.name # r.saved[1].name} \cup {r.saved[1]}]
    /\ pc' = "leave_with"
    /\ UNCHANGED <<args, k, p, handles, garbage, outcomes, notMainVars>>

\* the with block is left, normally or by an exception: f is closed
LeaveWith ==
    /\ pc = "leave_with"
    /\ handles' = handles \ {<<"save", k + 1>>}
    /\ IF cur.result.err # "none"
       THEN Raise(cur.result.err) /\ UNCHANGED k
       ELSE /\ outcomes' = Append(outcomes, Outcome("none", cur.result.img))
            /\ k' = k + 1
            /\ pc' = "loop"
    /\ UNCHANGED <<args, p, garbage, fs, cur, notMainVars>>

\* the loop is over: main returns
Return ==
    /\ pc = "loop"
    /\ k = Len(args)
    /\ pc' = "done"
    /\ UNCHANGED <<mainVars, notMainVars>>

\* An object no reference reaches is finalized when the interpreter gets to
\* it, which closes its handle.
Finalize ==
    /\ pc # "exited"
    /\ \E id \in garbage :
          /\ handles' = handles \ {id}
          /\ garbage' = garbage \ {id}
    /\ UNCHANGED <<pc, args, k, p, fs, cur, outcomes, notMainVars>>

\* the process ends, after main returned or an exception left it
Exit ==
    /\ pc \in {"done", "crashed"}
    /\ pc' = "exited"
    /\ handles' = {}
    /\ garbage' = {}
    /\ UNCHANGED <<args, k, p, fs, cur, outcomes, notMainVars>>

\* ------------------------------------------------------------ specifications

OffsetStart == OffsetInit /\ ExtractIdle /\ OpenIdle /\ ImageIdle /\ PixelIdle /\ MainIdle

OffsetNext == CallGetOffset

SpecOffset == OffsetStart /\ [][OffsetNext]_vars

ExtractStart == ExtractInit /\ OffsetIdle /\ OpenIdle /\ ImageIdle /\ PixelIdle /\ MainIdle

ExtractNext == CallExtractEntry

SpecExtract == ExtractStart /\ [][ExtractNext]_vars

OpenStart == OpenInit /\ OffsetIdle /\ ExtractIdle /\ ImageIdle /\ PixelIdle /\ MainIdle

OpenNext == CallPirsInit

SpecOpen == OpenStart /\ [][OpenNext]_vars

ImageStart == ImageInit /\ OffsetIdle /\ ExtractIdle /\ OpenIdle /\ PixelIdle /\ MainIdle

ImageNext == CallExtractImage

SpecImage == ImageStart /\ [][ImageNext]_vars

PixelStart == PixelInit /\ OffsetIdle /\ ExtractIdle /\ OpenIdle /\ ImageIdle /\ MainIdle

PixelNext == Reorder \/ ShiftR \/ ShiftG \/ ShiftB

SpecPixel == PixelStart /\ [][PixelNext]_vars

MainStart == MainInit /\ OffsetIdle /\ ExtractIdle /\ OpenIdle /\ ImageIdle /\ PixelIdle

MainNext ==
    \/ NextInput \/ OpenPackage \/ ExtractAllEntries \/ OpenSave
    \/ DecodeSave \/ LeaveWith \/ Return \/ Finalize \/ Exit

SpecMain == MainStart /\ [][MainNext]_vars

\* ------------------------------------------------------------ properties

\* --- C1

\* C1, as the specification words it: _get_offset(c) is
\* 49152 + c*4096 + 8192*(c div 170) + 8192*(c div 28900), one index block
\* per complete group of 170 clusters passed and one more per 170*170.
OffsetAddsOneBlockPerGroup ==
    pc = "returned" =>
        off = 49152 + cluster * 4096 + 8192 * (cluster \div 170)
              + 8192 * (cluster \div 28900)

\* C1, as the code computes it: once c has passed the first group of 170
\* clusters the offset gains 8192*((c div 170) + 1), and once it has passed
\* the first 170*170 clusters it gains 8192*((c div 28900) + 1) more; below
\* 170 nothing is added.  _get_offset(170) is 49152 + 170*4096 + 16384.
OffsetAddsGroupsPlusOne ==
    pc = "returned" =>
        off = 49152 + cluster * 4096
              + (IF cluster >= 170 THEN 8192 * ((cluster \div 170) + 1) ELSE 0)
              + (IF cluster >= 28900 THEN 8192 * ((cluster \div 28900) + 1) ELSE 0)

OffsetAtFirstBoundary ==
    pc = "returned" /\ cluster = 170 /\ off = 49152 + 170 * 4096 + 16384

\* --- C2

\* the full blocks and the remainder _extract_entry starts from
BlocksAsked(e) ==
    IF e.BlockLen > 0 THEN Min(e.Size \div 4096, e.BlockLen) ELSE e.Size \div 4096

RemainderAsked(e) == e.Size - 4096 * BlocksAsked(e)

\* a full block of e that does not lie within the package
SomeBlockCut(self, e) ==
    \E i \in 0..(BlocksAsked(e) - 1) : GetOffset(e.Cluster + i) + 4096 > self.pkg_size

\* C2: when the full-block loop of _extract_entry ends early (the offset did
\* not grow, the offset is at or beyond the package size, or fewer than 4096
\* bytes are left at the offset), the remainder is 0 afterwards and the
\* trailing remainder step writes nothing.  The loop ends early exactly when
\* some full block does not lie within the package.
EarlyExitDropsRemainder ==
    pc = "returned" /\ entry.Size > 0 =>
        /\ ex.exit \in {"complete", "not_increasing", "beyond_eof",
                        "nothing_left", "short"}
        /\ ex.exit # "complete" <=> SomeBlockCut(pirs, entry)
        /\ ex.exit # "complete" => ex.remainder = 0 /\ ex.tail = <<>>

ShortBlockDroppedRemainder ==
    /\ pc = "returned"
    /\ ex.exit = "short"
    /\ ex.iterations + 1 < ex.full_blocks
    /\ RemainderAsked(entry) > 0
    /\ ex.remainder = 0
    /\ ex.tail = <<>>

\* --- C3

\* byte ch of the pixel at row y, column x of a w-wide buffer
PixelByte(buf, y, x, ch) == buf[(y * w + x) * 3 + ch + 1]

\* C3: after reorder_channels and the three shift_channel calls, at every row
\* y and column x the R byte is raw byte 2 of the pixel at column (x+3) mod w,
\* the G byte raw byte 0 and the B byte raw byte 1 of the pixel at column
\* (x+4) mod w, all of row y.
PixelsReorderedAndShifted ==
    pc = "shifted_b" =>
        /\ Len(data) = w * h * 3
        /\ \A y \in 0..(h - 1), x \in 0..(w - 1) :
              /\ PixelByte(data, y, x, 0) = PixelByte(raw, y, (x + 3) % w, 2)
              /\ PixelByte(data, y, x, 1) = PixelByte(raw, y, (x + 4) % w, 0)
              /\ PixelByte(data, y, x, 2) = PixelByte(raw, y, (x + 4) % w, 1)

WideImageShifted ==
    /\ pc = "shifted_b"
    /\ w = 5 /\ h = 2
    /\ PixelByte(data, 1, 0, 0) = PixelByte(raw, 1, 3, 2)
    /\ PixelByte(data, 1, 4, 1) = PixelByte(raw, 1, 3, 0)
    /\ PixelByte(raw, 1, 3, 2) # PixelByte(raw, 1, 2, 2)

\* --- C4

\* the u32 at offset o of the save file
SaveU32(o) == FromLE(FileRead(save.file, o, 4))

\* C4: the value after the first divider is at offset 20.  When it is above
\* 16384 the decoder skips the 60 bytes 24..83, takes the divider at 84 and
\* the width at 85, then the divider at 89 and the height at 90; otherwise
\* (16384 included) it is the width, and the divider at 24 and the height at
\* 25 follow.  A save written in either layout decodes to the width and the
\* height written.
WidthAndHeightRead ==
    pc = "returned" =>
        /\ shot.meta # <<>> =>
              IF SaveU32(20) > 16384
              THEN /\ ByteAt(save.file, 84) = 124
                   /\ shot.meta[1].width = SaveU32(85)
                   /\ ByteAt(save.file, 89) = 124
                   /\ shot.meta[1].height = SaveU32(90)
              ELSE /\ shot.meta[1].width = SaveU32(20)
                   /\ ByteAt(save.file, 24) = 124
                   /\ shot.meta[1].height = SaveU32(25)
        /\ save.q.flaw = "none" /\ (save.q.layout = "legacy" \/ save.q.first <= 16384) =>
              /\ shot.meta # <<>>
              /\ shot.meta[1].width = save.q.width
              /\ shot.meta[1].height = save.q.height

LegacyWidthRecovered ==
    /\ pc = "returned"
    /\ save.q.layout = "legacy"
    /\ SaveU32(20) = 16385
    /\ shot.err = "none"
    /\ shot.meta[1].width = 2
    /\ shot.meta[1].height = 1

\* --- C5

\* the bytes the save file holds from screenshotOffset = 4 + headerSize on
PixelBytesAvailable == Max(0, save.file.size - (4 + SaveU32(11)))

\* C5: when the header decodes and fewer than width*height*3 bytes are in the
\* file from offset 4 + headerSize on, extract_image fails with the
\* end-of-input error and builds and saves no image; an image that is built
\* has width*height*3 bytes.
TruncatedPixelsRaiseEOF ==
    pc = "returned" /\ shot.meta # <<>> =>
        /\ PixelBytesAvailable < shot.meta[1].width * shot.meta[1].height * 3 =>
              shot.err = "EOF" /\ shot.img = <<>> /\ shot.saved = <<>>
        /\ shot.img # <<>> =>
              Len(shot.img[1].data) = shot.meta[1].width * shot.meta[1].height * 3

CutByOneRaisedEOF ==
    /\ pc = "returned"
    /\ save.q.flaw = "none" /\ save.q.cut = 1 /\ save.q.pad = 3
    /\ shot.meta # <<>>
    /\ PixelBytesAvailable + 1 = shot.meta[1].width * shot.meta[1].height * 3
    /\ shot.err = "EOF"
    /\ shot.saved = <<>>

\* --- C6

\* C6: _extract_entry returns normally for every entry and package size; no
\* read of it runs into the end of the file.
ExtractionNeverRaises ==
    pc = "returned" =>
        /\ ex.err = "none"
        /\ \A i \in 1..Len(ex.loop \o ex.tail) :
              (ex.loop \o ex.tail)[i].at + (ex.loop \o ex.tail)[i].n <= pirs.pkg_size

RemainderClipped ==
    /\ pc = "returned"
    /\ ex.err = "none"
    /\ ex.exit = "complete"
    /\ ex.tail # <<>>
    /\ ex.tail[1].n < ex.remainder
    /\ ex.tail[1].at + ex.tail[1].n = pirs.pkg_size

\* --- C7

\* the slots written before the first one whose name reads as empty
RECURSIVE NamedSlots(_)
NamedSlots(slots) ==
    IF slots = <<>> \/ Head(slots).shown = <<>> THEN <<>>
    ELSE <<Head(slots)>> \o NamedSlots(Tail(slots))

\* the record a written slot decodes to
Decoded(sl) ==
    [Filename |-> sl.shown, Unknow |-> sl.unknow, BlockLen |-> sl.blocklen,
     Cluster |-> sl.raw_cluster \div 256, Parent |-> sl.parent, Size |-> sl.size,
     DateTime1 |-> dos_datetime_from_u32(sl.dt1),
     DateTime2 |-> dos_datetime_from_u32(sl.dt2),
     is_dir |-> (sl.size = 0 /\ sl.raw_cluster < 256)]

\* C7: opening a package whose magic is valid ends in one of two ways.  With
\* k the first slot whose name is empty: when the file holds the name field
\* of slot k (38 bytes at 49152 + k*64), the entries are the decoded records
\* of slots 0..k-1 in order, k+1 slots were read and the handle rests behind
\* the name of slot k; otherwise the open fails with the end-of-input error
\* and there is no object.
OpenListsSlotsBeforeEmptyName ==
    pc = "returned" /\ FileRead(pkg.file, 0, 4) = <<67, 79, 78, 32>> =>
        IF 49152 + Len(NamedSlots(pkg.slots)) * 64 + 38 <= pkg.file.size
        THEN /\ opened.err = "none"
             /\ Len(opened.self) = 1
             /\ opened.self[1].entries =
                   [j \in 1..Len(NamedSlots(pkg.slots)) |-> Decoded(pkg.slots[j])]
             /\ opened.slots_read = Len(NamedSlots(pkg.slots)) + 1
             /\ opened.pos = 49152 + Len(NamedSlots(pkg.slots)) * 64 + 38
        ELSE /\ opened.err = "EOF"
             /\ opened.self = <<>>

TableEndsAtBlankName ==
    /\ pc = "returned"
    /\ Len(pkg.slots) = 2
    /\ pkg.slots[1].shown = <<>> /\ pkg.slots[1].name # <<>>
    /\ pkg.slots[2].shown # <<>>
    /\ opened.err = "none"
    /\ opened.self[1].entries = <<>>
    /\ opened.slots_read = 1

\* --- C8

\* C8: every handle opened while an input is processed is closed once the
\* loop of main has moved past that input.
HandlesClosedAfterEachInput ==
    \A id \in handles : id[2] > k

\* --- C9

\* what main makes of one input run alone, out_dir empty
SaveOutcome(r) == Outcome(r.err, r.img)

ExtractedOutcome(x) ==
    IF x.err # "none" THEN Outcome(x.err, <<>>)
    ELSE IF SavegameDat \notin DOMAIN x.files THEN Outcome("FileNotFound", <<>>)
    ELSE SaveOutcome(ExtractImageBody(FlatFile(x.files[SavegameDat])))

OpenedOutcome(o) ==
    IF o.err # "none" THEN Outcome(o.err, <<>>)
    ELSE ExtractedOutcome(ExtractAll(o.self[1], 1, <<>>))

AloneOutcome(input) ==
    IF input.fxs THEN OpenedOutcome(PirsInit(input.file))
    ELSE SaveOutcome(ExtractImageBody(input.file))

\* C9: when main has ended, every input of the batch has an outcome, and it
\* is the outcome the input has when it is processed alone.
BatchOutcomesIndependent ==
    pc = "exited" =>
        /\ Len(outcomes) = Len(args)
        /\ \A j \in 1..Len(outcomes) : outcomes[j] = AloneOutcome(args[j])

\* --- C10

\* every full block, and the remainder if there is one, lies within the package
AllWithinPackage(self, e) ==
    /\ ~SomeBlockCut(self, e)
    /\ RemainderAsked(e) > 0 =>
          GetOffset(e.Cluster + BlocksAsked(e)) + RemainderAsked(e) <= self.pkg_size

\* C10: for an entry with Size > 0 the bytes _extract_entry writes are never
\* more than Size, and they are exactly Size when, and only when, every full
\* block's offset plus 4096 and (when the remainder is not 0) the remainder's
\* offset plus the remainder lie within the package.
BytesWrittenWithinSize ==
    pc = "returned" /\ entry.Size > 0 =>
        /\ ex.created
        /\ ChunkBytes(ex.loop \o ex.tail) <= entry.Size
        /\ ChunkBytes(ex.loop \o ex.tail) = entry.Size <=> AllWithinPackage(pirs, entry)

HintCappedEntryWrittenWhole ==
    /\ pc = "returned"
    /\ entry.BlockLen > 0
    /\ entry.BlockLen < entry.Size \div 4096
    /\ ex.remainder > 4096
    /\ ChunkBytes(ex.loop \o ex.tail) = entry.Size

====
